---- MODULE Spec2Model ----
(***************************************************************************)
(* A model of app.py (AI Task Planner): the Streamlit script, the ReAct    *)
(* agent executor it configures, the get_weather tool and the plans table. *)
(*                                                                         *)
(* Texts are sequences of tokens.  The three markers of the ReAct format   *)
(* are tokens of their own; a blank and a double quote are tokens because  *)
(* the output parser strips them.                                          *)
(***************************************************************************)
EXTENDS Integers, Sequences, FiniteSets, TLC

VARIABLES
    GROQ_API_KEY,        \* app.py:18  effective value: "None", "" or "key"
    SERPER_API_KEY,      \* app.py:19
    OPENWEATHER_API_KEY, \* app.py:20
    agent_executor,      \* app.py:27-118  "None" until the script built llm, tools and executor
    table,               \* app.py:123-137 TRUE once CREATE TABLE IF NOT EXISTS plans ran
    plans,               \* rows of the plans table, in insertion (rowid) order
    now,                 \* wall clock, in ticks
    pc,                  \* where the script run is: "idle", "thinking", "acting"
    goal,                \* app.py:161 text of the goal input
    iterations,          \* AgentExecutor loop counter
    steps,               \* len(intermediate_steps)
    last_step,           \* intermediate_steps[-1] (action, observation)
    llm_output,          \* raw text of the last model utterance
    parsed,              \* what the output parser made of llm_output
    executor_result,     \* how agent_executor.invoke ended: "none", "finish", "stopped", "raised"
    exception,           \* the exception that escaped the script run, "" if none
    output,              \* response['output']
    ui,                  \* last status element the page showed
    history,             \* rows get_all_plans() returned to the View History page
    rows_at_click,       \* Len(plans) when Generate Plan was clicked (history variable)
    tool_args,           \* arguments and HTTP answer of a direct get_weather call
    tool_result          \* what that call returned or raised

vars == <<GROQ_API_KEY, SERPER_API_KEY, OPENWEATHER_API_KEY, agent_executor, table,
          plans, now, pc, goal, iterations, steps, last_step, llm_output, parsed,
          executor_result, exception, output, ui, history, rows_at_click,
          tool_args, tool_result>>

-----------------------------------------------------------------------------
(* Bounds of the model *)

\* longest model utterance, in tokens, the parser is checked on
MaxLen == 4
\* rows the plans table may hold
MaxPlans == 2
\* last tick of the clock
MaxClock == 3
\* longest forecast list
MaxForecasts == 3

-----------------------------------------------------------------------------
(* Texts *)

FA == "Final Answer:"
ACT == "Action:"
INP == "Action Input:"
SP == " "
QUOTE == "\""

Alphabet == {FA, ACT, INP, SP, QUOTE, "get_weather", "x"}

RECURSIVE SeqsUpTo(_, _)
SeqsUpTo(S, n) ==
    IF n = 0 THEN {<<>>}
    ELSE LET shorter == SeqsUpTo(S, n - 1)
         IN shorter \cup {Append(s, t) : s \in {q \in shorter : Len(q) = n - 1}, t \in S}

Contains(text, tok) == \E i \in 1..Len(text) : text[i] = tok

\* index of the first / last occurrence of tok in text at or after position from, 0 if none
FirstIndex(text, tok, from) ==
    IF \E i \in from..Len(text) : text[i] = tok
    THEN CHOOSE i \in from..Len(text) :
             text[i] = tok /\ \A j \in from..(i - 1) : text[j] # tok
    ELSE 0

LastIndex(text, tok) ==
    IF Contains(text, tok)
    THEN CHOOSE i \in 1..Len(text) :
             text[i] = tok /\ \A j \in (i + 1)..Len(text) : text[j] # tok
    ELSE 0

\* str.strip(chars): drop the leading and trailing tokens that are in chars
RECURSIVE LStrip(_, _)
LStrip(text, chars) ==
    IF text # <<>> /\ Head(text) \in chars THEN LStrip(Tail(text), chars) ELSE text

RECURSIVE RStrip(_, _)
RStrip(text, chars) ==
    IF text # <<>> /\ text[Len(text)] \in chars
    THEN RStrip(SubSeq(text, 1, Len(text) - 1), chars)
    ELSE text

Strip(text, chars) == RStrip(LStrip(text, chars), chars)

-----------------------------------------------------------------------------
(* The ReAct output parser create_react_agent installs (app.py:117) *)

NotParsed == [kind |-> "none", tool |-> <<>>, tool_input |-> <<>>, output |-> <<>>]
AgentAction(t, i) == [kind |-> "action", tool |-> t, tool_input |-> i, output |-> <<>>]
AgentFinish(o) == [kind |-> "finish", tool |-> <<>>, tool_input |-> <<>>, output |-> o]
OutputParserException == [kind |-> "error", tool |-> <<>>, tool_input |-> <<>>, output |-> <<>>]

\* re.search of "Action: (name) Action Input: (input)": the leftmost Action: marker
\* that an Action Input: marker follows
ActionIndex(text) ==
    LET a == FirstIndex(text, ACT, 1)
    IN IF a # 0 /\ FirstIndex(text, INP, a + 1) # 0 THEN a ELSE 0

\* a parser that cuts the final answer at the first marker
parse_first_marker(text) ==
    LET includes_answer == Contains(text, FA)
        a == ActionIndex(text)
        i == FirstIndex(text, INP, a + 1)
    IN IF a # 0
       THEN IF includes_answer
            THEN OutputParserException
            ELSE AgentAction(Strip(SubSeq(text, a + 1, i - 1), {SP}),
                             Strip(Strip(SubSeq(text, i + 1, Len(text)), {SP}), {QUOTE}))
       ELSE IF includes_answer
            THEN AgentFinish(Strip(SubSeq(text, FirstIndex(text, FA, 1) + 1, Len(text)), {SP}))
            ELSE OutputParserException

parse(text) ==
    LET includes_answer == Contains(text, FA)
        a == ActionIndex(text)
        i == FirstIndex(text, INP, a + 1)
    IN IF a # 0
       THEN IF includes_answer
            THEN OutputParserException
            ELSE AgentAction(Strip(SubSeq(text, a + 1, i - 1), {SP}),
                             Strip(Strip(SubSeq(text, i + 1, Len(text)), {SP}), {QUOTE}))
       ELSE IF includes_answer
            THEN AgentFinish(Strip(SubSeq(text, LastIndex(text, FA) + 1, Len(text)), {SP}))
            ELSE OutputParserException

-----------------------------------------------------------------------------
(* get_weather (app.py:34-68) *)

NoDate == "None"
\* the date strings a caller may pass; the last two have the form YYYY-MM-DD
DateArgs == {NoDate, "", "tomorrow", "1970-01-02", "1970-01-03"}
ValidDates == {"1970-01-02", "1970-01-03"}

SecondsPerDay == 86400
SecondsPerMinute == 60
NoKey == -1

\* `if date:` is false for None and for the empty string
Truthy(s) == s # "None" /\ s # ""

\* datetime.strptime(date, "%Y-%m-%d") as seconds since the epoch; -1 stands for ValueError
strptime(date) ==
    CASE date = "1970-01-02" -> 1 * SecondsPerDay
      [] date = "1970-01-03" -> 2 * SecondsPerDay
      [] OTHER -> -1

\* strftime("%Y-%m-%d %H:%M") drops the seconds
strftime(dt) == dt - (dt % SecondsPerMinute)

Abs(x) == IF x < 0 THEN -x ELSE x

TimeStamps == {43200, 86430, 129600}

\* one element of data['list']; dt = NoKey: the entry has no 'dt'; complete = FALSE:
\* 'main', 'weather' or one of their fields is missing
Entries ==
    [dt : TimeStamps, temp : {10, 20}, complete : {TRUE}]
        \cup {[dt |-> NoKey, temp |-> 10, complete |-> TRUE],
              [dt |-> 43200, temp |-> 10, complete |-> FALSE]}

NoEntry == [dt |-> NoKey, temp |-> 0, complete |-> FALSE]

\* response bodies: not JSON, a forecast payload (with or without 'list'), a
\* current-conditions payload
NotJson == [json |-> FALSE, has_list |-> FALSE, list |-> <<>>, main |-> NoEntry]
ForecastBodies ==
    {[json |-> TRUE, has_list |-> TRUE, list |-> l, main |-> NoEntry] :
        l \in SeqsUpTo(Entries, MaxForecasts)}
CurrentBodies ==
    {[json |-> TRUE, has_list |-> FALSE, list |-> <<>>, main |-> m] :
        m \in {[dt |-> NoKey, temp |-> 10, complete |-> TRUE],
               [dt |-> NoKey, temp |-> 10, complete |-> FALSE]}}

StatusCodes == {200, 404, 500}
ConnectionError == [net |-> "error", status |-> 0, body |-> NotJson]
Responses(bodies) == [net : {"ok"}, status : StatusCodes, body : bodies]

Return(m, c, d, t) ==
    [kind |-> "return", msg |-> m, code |-> c, date |-> d, temp |-> t, exc |-> ""]
Raise(e) ==
    [kind |-> "raise", msg |-> "", code |-> 0, date |-> 0, temp |-> 0, exc |-> e]
NoResult ==
    [kind |-> "none", msg |-> "", code |-> 0, date |-> 0, temp |-> 0, exc |-> ""]

\* the comparison min() makes: a later element replaces the best one only when its key
\* is strictly smaller
CloserOrEqual(a, b, target_dt) == Abs(a.dt - target_dt) <= Abs(b.dt - target_dt)

Closer(a, b, target_dt) == Abs(a.dt - target_dt) < Abs(b.dt - target_dt)

RECURSIVE MinFrom(_, _, _, _)
MinFrom(forecasts, target_dt, i, best) ==
    IF i > Len(forecasts) THEN best
    ELSE IF Closer(forecasts[i], forecasts[best], target_dt)
         THEN MinFrom(forecasts, target_dt, i + 1, i)
         ELSE MinFrom(forecasts, target_dt, i + 1, best)

\* index of min(forecasts, key=...), 0 for default=None
closest(forecasts, target_dt) ==
    IF forecasts = <<>> THEN 0 ELSE MinFrom(forecasts, target_dt, 2, 1)

StatusAny(status_code) == TRUE

StatusOk(status_code) == status_code = 200

get_weather(location, date, response) ==
    IF response.net = "error" THEN Raise("ConnectionError")
    ELSE IF StatusOk(response.status)
    THEN LET data == response.body IN
         IF ~data.json THEN Raise("JSONDecodeError")
         ELSE IF Truthy(date)
         THEN IF strptime(date) = -1 THEN Raise("ValueError")
              ELSE LET target_dt == strptime(date)
                       forecasts == IF data.has_list THEN data.list ELSE <<>>
                   IN IF \E i \in 1..Len(forecasts) : forecasts[i].dt = NoKey
                      THEN Raise("KeyError")
                      ELSE LET c == closest(forecasts, target_dt) IN
                           IF c = 0 THEN Return("No forecast available.", 0, 0, 0)
                           ELSE IF ~forecasts[c].complete THEN Raise("KeyError")
                           ELSE Return("forecast", 0, strftime(forecasts[c].dt),
                                       forecasts[c].temp)
         ELSE IF ~data.main.complete THEN Raise("KeyError")
              ELSE Return("current", 0, 0, data.main.temp)
    ELSE Return("Error fetching weather: ", response.status, 0, 0)

-----------------------------------------------------------------------------
(* Start of every script run: credentials (app.py:17-24), llm, tools, agent
   executor (app.py:26-118), init_db (app.py:123-137) *)

KeyValues == {"None", "", "key"}

\* st.secrets.get(K) or os.getenv(K)
OrElse(a, b) == IF Truthy(a) THEN a ELSE b

any_keys == Truthy(GROQ_API_KEY) \/ Truthy(SERPER_API_KEY) \/ Truthy(OPENWEATHER_API_KEY)

\* all([GROQ_API_KEY, SERPER_API_KEY, OPENWEATHER_API_KEY])
all_keys == Truthy(GROQ_API_KEY) /\ Truthy(SERPER_API_KEY) /\ Truthy(OPENWEATHER_API_KEY)

\* AgentExecutor(agent=agent, tools=tools, verbose=True, handle_parsing_errors=True):
\* max_iterations keeps the library's default, 15, and early_stopping_method its
\* default "force": at the cap invoke returns StoppedText as the output
max_iterations == 15

parsing_errors_raise == FALSE

handle_parsing_errors == TRUE

tools == {<<"google_serper">>, <<"get_weather">>}

NoStep == [tool |-> <<>>, observation |-> NoResult]

Goals == {"", "g1", "g2"}

\* what the model may say in one turn
ModelReplies ==
    { <<"x">>,
      <<ACT, "google_serper", INP, "x">>,
      <<ACT, SP, "get_weather", SP, INP, QUOTE, "x", QUOTE>>,
      <<ACT, "x", INP, "x">>,
      <<FA, SP, "x">>,
      <<"x", FA, "x", FA, "x", "x">>,
      <<ACT, "get_weather", INP, "x", FA, "x">> }

StoppedText == <<"Agent stopped due to iteration limit or time limit.">>

-----------------------------------------------------------------------------
(* The plans table (app.py:120-152) *)

TicksPerSecond == 2

\* created_at TIMESTAMP DEFAULT CURRENT_TIMESTAMP: whole seconds
CURRENT_TIMESTAMP == now \div TicksPerSecond

save_plan_twice(g, plan) ==
    LET row == [id |-> Len(plans) + 1, goal |-> g, plan |-> plan,
                created_at |-> CURRENT_TIMESTAMP]
    IN Append(Append(plans, row), [row EXCEPT !.id = Len(plans) + 2])

\* INSERT INTO plans (goal, plan) VALUES (?, ?)
save_plan(g, plan) ==
    Append(plans, [id |-> Len(plans) + 1, goal |-> g, plan |-> plan,
                   created_at |-> CURRENT_TIMESTAMP])

RowOrders(n) ==
    {f \in [1..n -> 1..n] : \A i, j \in 1..n : i # j => f[i] # f[j]}

\* SELECT ... FROM plans ORDER BY created_at DESC: every order of the rows that is
\* descending in created_at; rows of equal created_at come in any order
get_all_plans ==
    {[i \in 1..Len(plans) |-> plans[f[i]]] :
        f \in {q \in RowOrders(Len(plans)) :
                \A i, j \in 1..Len(plans) :
                    i < j => plans[q[i]].created_at >= plans[q[j]].created_at}}

-----------------------------------------------------------------------------
(* Actions *)

ToolVarsUnchanged == UNCHANGED <<tool_args, tool_result>>
KeysUnchanged == UNCHANGED <<GROQ_API_KEY, SERPER_API_KEY, OPENWEATHER_API_KEY>>

\* app.py:22-24: st.error(...); st.stop()
MissingKeys ==
    /\ pc = "idle"
    /\ ~all_keys
    /\ ui' = "Missing API keys."
    /\ UNCHANGED <<agent_executor, table, plans, now, pc, goal, iterations, steps,
                   last_step, llm_output, parsed, executor_result, exception, output,
                   history, rows_at_click>>
    /\ KeysUnchanged /\ ToolVarsUnchanged

\* lines 26-137 of a script run that passed the key check
Startup ==
    /\ all_keys
    /\ agent_executor' = "ready"
    /\ table' = TRUE

\* a script run starts with fresh locals
FreshLocals ==
    /\ history' = <<>>
    /\ executor_result' = "none"
    /\ exception' = ""
    /\ output' = <<>>
    /\ iterations' = 0
    /\ steps' = 0
    /\ last_step' = NoStep
    /\ llm_output' = <<>>
    /\ parsed' = NotParsed

\* app.py:160-173, up to the call of agent_executor.invoke
NewPlan(g, clicked) ==
    /\ pc = "idle"
    /\ Startup
    /\ FreshLocals
    /\ goal' = g
    /\ rows_at_click' = Len(plans)
    /\ IF ~clicked THEN pc' = "idle" /\ ui' = ""
       ELSE IF g = "" THEN pc' = "idle" /\ ui' = "Please enter a goal."
       ELSE Len(plans) < MaxPlans /\ pc' = "thinking" /\ ui' = "Generating plan..."
    /\ UNCHANGED <<plans, now>>
    /\ KeysUnchanged /\ ToolVarsUnchanged

\* app.py:167-171: plan = response['output']; save_plan(goal, plan); st.success
HandlerReturns(how, out) ==
    /\ executor_result' = how
    /\ output' = out
    /\ plans' = save_plan(goal, out)
    /\ ui' = "Plan saved!"
    /\ pc' = "idle"
    /\ UNCHANGED <<exception, iterations, steps, last_step>>

\* an exception leaves agent_executor.invoke (app.py:166) and ends the script run
HandlerRaises(e) ==
    /\ executor_result' = "raised"
    /\ exception' = e
    /\ ui' = "exception"
    /\ pc' = "idle"
    /\ UNCHANGED <<plans, output, iterations, steps, last_step>>

\* one intermediate step is recorded and the loop comes back to its head
NextIteration(name, obs) ==
    /\ last_step' = [tool |-> name, observation |-> obs]
    /\ steps' = steps + 1
    /\ iterations' = iterations + 1
    /\ pc' = "thinking"
    /\ UNCHANGED <<executor_result, exception, output, ui, plans>>

\* the agent's plan() on the model's reply text: the output parser, then what the
\* executor does with what it gives
Plan(text) ==
    /\ llm_output' = text
    /\ parsed' = parse(text)
    /\ CASE parse(text).kind = "finish" ->
                HandlerReturns("finish", parse(text).output)
         [] parse(text).kind = "action" ->
                /\ pc' = "acting"
                /\ UNCHANGED <<executor_result, exception, output, ui, plans,
                               iterations, steps, last_step>>
         [] OTHER ->
                IF handle_parsing_errors
                THEN NextIteration(<<"_Exception">>,
                                   Return("Invalid or incomplete response", 0, 0, 0))
                ELSE HandlerRaises("OutputParserException")

\* the loop's head below the cap: one model call, which answers with a text or fails
Thinking(replies) ==
    /\ pc = "thinking"
    /\ iterations < max_iterations
    /\ \/ \E text \in replies : Plan(text)
       \/ /\ llm_output' = <<>>
          /\ parsed' = NotParsed
          /\ HandlerRaises("APIError")
    /\ UNCHANGED <<agent_executor, table, now, goal, history, rows_at_click>>
    /\ KeysUnchanged /\ ToolVarsUnchanged

\* the loop's head once the cap is reached: return_stopped_response("force")
Stopped ==
    /\ pc = "thinking"
    /\ iterations >= max_iterations
    /\ HandlerReturns("stopped", StoppedText)
    /\ UNCHANGED <<llm_output, parsed>>
    /\ UNCHANGED <<agent_executor, table, now, goal, history, rows_at_click>>
    /\ KeysUnchanged /\ ToolVarsUnchanged

\* what the tool call of an AgentAction gives.  The executor hands the Action Input
\* text to the tool as its first argument, so get_weather runs with date = None and
\* asks the current-conditions endpoint; GoogleSerperRun answers with a text or
\* raises; a name that is no tool is answered by the executor itself
ToolOutcomes(name, tool_input) ==
    IF name = <<"get_weather">>
    THEN {get_weather(tool_input, NoDate, r) :
            r \in {ConnectionError} \cup Responses(CurrentBodies \cup {NotJson})}
    ELSE IF name \in tools
    THEN {Return("search result", 0, 0, 0), Raise("HTTPError")}
    ELSE {Return("is not a valid tool, try one of [google_serper, get_weather].", 0, 0, 0)}

\* a tool's result becomes the observation; a tool's exception is re-raised
Observe(name, result) ==
    IF result.kind = "return"
    THEN NextIteration(name, result)
    ELSE HandlerRaises(result.exc)

Acting ==
    /\ pc = "acting"
    /\ \E result \in ToolOutcomes(parsed.tool, parsed.tool_input) :
            Observe(parsed.tool, result)
    /\ UNCHANGED <<llm_output, parsed>>
    /\ UNCHANGED <<agent_executor, table, now, goal, history, rows_at_click>>
    /\ KeysUnchanged /\ ToolVarsUnchanged

\* app.py:175-182
ViewHistory ==
    /\ pc = "idle"
    /\ Startup
    /\ executor_result' = "none"
    /\ exception' = ""
    /\ output' = <<>>
    /\ iterations' = 0
    /\ steps' = 0
    /\ last_step' = NoStep
    /\ llm_output' = <<>>
    /\ parsed' = NotParsed
    /\ \E rows \in get_all_plans :
            /\ history' = rows
            /\ ui' = IF rows = <<>> THEN "No plans saved yet." ELSE "history"
    /\ UNCHANGED <<plans, now, pc, goal, rows_at_click>>
    /\ KeysUnchanged /\ ToolVarsUnchanged

Tick ==
    /\ now < MaxClock
    /\ now' = now + 1
    /\ UNCHANGED <<agent_executor, table, plans, pc, goal, iterations, steps, last_step,
                   llm_output, parsed, executor_result, exception, output, ui, history,
                   rows_at_click>>
    /\ KeysUnchanged /\ ToolVarsUnchanged

NoArgs == [location |-> <<>>, date |-> NoDate, response |-> ConnectionError]

InitProgram ==
    /\ agent_executor = "None"
    /\ table = FALSE
    /\ plans = <<>>
    /\ now = 0
    /\ pc = "idle"
    /\ goal = ""
    /\ iterations = 0
    /\ steps = 0
    /\ last_step = NoStep
    /\ llm_output = <<>>
    /\ parsed = NotParsed
    /\ executor_result = "none"
    /\ exception = ""
    /\ output = <<>>
    /\ ui = ""
    /\ history = <<>>
    /\ rows_at_click = 0

Init ==
    /\ \E s1, e1, s2, e2, s3, e3 \in KeyValues :
            /\ GROQ_API_KEY = OrElse(s1, e1)
            /\ SERPER_API_KEY = OrElse(s2, e2)
            /\ OPENWEATHER_API_KEY = OrElse(s3, e3)
    /\ InitProgram
    /\ tool_args = NoArgs
    /\ tool_result = NoResult

Next ==
    \/ MissingKeys
    \/ \E g \in Goals, clicked \in BOOLEAN : NewPlan(g, clicked)
    \/ Thinking(ModelReplies)
    \/ Acting
    \/ Stopped
    \/ ViewHistory
    \/ Tick

Spec == Init /\ [][Next]_vars

-----------------------------------------------------------------------------
(* One planning run whose model may say any text of up to MaxLen tokens *)

Utterances == SeqsUpTo(Alphabet, MaxLen)

InitRun ==
    /\ GROQ_API_KEY = "key"
    /\ SERPER_API_KEY = "key"
    /\ OPENWEATHER_API_KEY = "key"
    /\ agent_executor = "ready"
    /\ table = TRUE
    /\ plans = <<>>
    /\ now = 0
    /\ goal = "g1"
    /\ llm_output = <<>>
    /\ executor_result = "none"
    /\ exception = ""
    /\ output = <<>>
    /\ ui = "Generating plan..."
    /\ history = <<>>
    /\ rows_at_click = 0

\* the last round below the cap, after rounds that each recorded one step
InitParser ==
    /\ InitRun
    /\ pc = "thinking"
    /\ iterations = max_iterations - 1
    /\ steps = max_iterations - 1
    /\ last_step = [tool |-> <<"google_serper">>,
                    observation |-> Return("search result", 0, 0, 0)]
    /\ parsed = NotParsed
    /\ tool_args = NoArgs
    /\ tool_result = NoResult

NextParser ==
    \/ Thinking(Utterances)
    \/ Acting
    \/ Stopped

SpecParser == InitParser /\ [][NextParser]_vars

-----------------------------------------------------------------------------
(* One tool call of the executor that reaches get_weather with any arguments and
   any answer of the weather service *)

WeatherCalls ==
    [location : {<<"x">>}, date : DateArgs,
     response : {ConnectionError}
                    \cup Responses(ForecastBodies \cup CurrentBodies \cup {NotJson})]

InitTool ==
    /\ InitRun
    /\ pc = "acting"
    /\ iterations = 0
    /\ steps = 0
    /\ last_step = NoStep
    /\ parsed = AgentAction(<<"get_weather">>, <<"x">>)
    /\ tool_args \in WeatherCalls
    /\ tool_result = NoResult

CallWeather ==
    /\ pc = "acting"
    /\ tool_args # NoArgs
    /\ tool_result = NoResult
    /\ tool_result' = get_weather(tool_args.location, tool_args.date, tool_args.response)
    /\ Observe(parsed.tool, tool_result')
    /\ UNCHANGED <<llm_output, parsed, tool_args>>
    /\ UNCHANGED <<agent_executor, table, now, goal, history, rows_at_click>>
    /\ KeysUnchanged

NextTool == CallWeather

SpecTool == InitTool /\ [][NextTool]_vars

-----------------------------------------------------------------------------
(* Properties *)

RunEnded == pc = "idle" /\ executor_result # "none"
RowsOfRun == Len(plans) - rows_at_click
ToolExceptions == {"ConnectionError", "JSONDecodeError", "KeyError", "ValueError", "HTTPError"}

\* C1: a run that the iteration cap stopped has stored no row in the plans table.
C1_CappedRunStoresNothing ==
    executor_result = "stopped" => RowsOfRun = 0

\* C2: a run has made at most max_iterations rounds, and when it is over it ended
\* either with a parsed final answer or, at the cap, as a failure reported to the
\* user (no "Plan saved!", nothing stored).  Runs ended by a failing model call are
\* outside the claim.
C2_EndsDoneOrFailed ==
    /\ iterations <= max_iterations
    /\ (RunEnded /\ exception # "APIError") =>
           \/ executor_result = "finish" /\ parsed.kind = "finish"
           \/ /\ executor_result = "stopped"
              /\ iterations = max_iterations
              /\ ui # "Plan saved!"
              /\ RowsOfRun = 0

\* C3: no exception of a tool call leaves agent_executor.invoke.
C3_ToolFailureIsObserved ==
    ~(executor_result = "raised" /\ exception \in ToolExceptions)

\* C4: a run that ended with a final answer added exactly one row, holding the goal
\* submitted and the final answer text and nothing else; no run adds two rows.
C4_DoneStoresOnce ==
    /\ RowsOfRun <= 1
    /\ executor_result = "finish" =>
           /\ parsed.kind = "finish"
           /\ goal # ""
           /\ RowsOfRun = 1
           /\ plans[Len(plans)].goal = goal
           /\ plans[Len(plans)].plan = parsed.output
           /\ plans[Len(plans)].id = Len(plans)
           /\ ~Contains(plans[Len(plans)].plan, FA)

C4_Witness ==
    /\ executor_result = "finish"
    /\ Len(plans) = 2
    /\ plans[2].goal = "g2"
    /\ plans[2].plan = <<"x", "x">>
    /\ steps >= 1

\* C5: a model call below the cap whose text does not parse leaves the run in
\* Thinking with one more round counted and one more step recorded, the step being
\* the parse failure's observation; no tool ran, nothing was stored, the run did
\* not end.
C5_ParseFailureRetries ==
    [][(/\ pc = "thinking"
        /\ iterations < max_iterations
        /\ now' = now
        /\ parsed'.kind = "error"
        /\ llm_output' # <<>>)
       => (/\ pc' = "thinking"
           /\ iterations' = iterations + 1
           /\ steps' = steps + 1
           /\ last_step'.tool = <<"_Exception">>
           /\ last_step'.observation.kind = "return"
           /\ last_step'.observation.msg = "Invalid or incomplete response"
           /\ executor_result' = "none"
           /\ plans' = plans)]_vars

C5_Witness ==
    /\ pc = "thinking"
    /\ parsed.kind = "error"
    /\ iterations = 2
    /\ steps = 2
    /\ last_step.tool = <<"_Exception">>
    /\ executor_result = "none"

HasActionPair(text) ==
    \E i, j \in 1..Len(text) : i < j /\ text[i] = ACT /\ text[j] = INP

\* o is text without its leading and trailing blanks
IsTrimOf(o, text) ==
    /\ o = <<>> \/ (o[1] # SP /\ o[Len(o)] # SP)
    /\ \E a \in 1..(Len(text) + 1), b \in 0..Len(text) :
          /\ o = SubSeq(text, a, b)
          /\ \A k \in 1..Len(text) : (k < a \/ k > b) => text[k] = SP

\* C6 as stated: every utterance with the Final Answer marker parses to a final answer
\* that is exactly the text after the first marker, and the run is Done.
C6_AsStated ==
    (llm_output # <<>> /\ Contains(llm_output, FA)) =>
        /\ parsed.kind = "finish"
        /\ parsed.output =
              SubSeq(llm_output, FirstIndex(llm_output, FA, 1) + 1, Len(llm_output))
        /\ executor_result = "finish"

\* C6 as amended: an utterance with the Final Answer marker and no Action: marker
\* followed by an Action Input: marker parses to a final answer that is the text
\* after the last marker without its leading and trailing blanks, and the run is
\* Done with that text as its output; with such a pair of markers the utterance is a
\* parse failure and the run is not Done.
C6_FinalAnswerParse ==
    (llm_output # <<>> /\ Contains(llm_output, FA)) =>
        IF HasActionPair(llm_output)
        THEN parsed.kind = "error" /\ executor_result # "finish"
        ELSE /\ parsed.kind = "finish"
             /\ \E k \in 1..Len(llm_output) :
                   /\ llm_output[k] = FA
                   /\ \A m \in (k + 1)..Len(llm_output) : llm_output[m] # FA
                   /\ IsTrimOf(parsed.output, SubSeq(llm_output, k + 1, Len(llm_output)))
             /\ executor_result = "finish"
             /\ output = parsed.output
             /\ pc = "idle"

C6_Witness ==
    /\ llm_output = <<FA, "x", FA, SP>>
    /\ parsed.kind = "finish"
    /\ parsed.output = <<>>
    /\ executor_result = "finish"

\* C7: the View History page lists every stored row once, a row stored later before
\* a row stored earlier.
C7_NewestFirst ==
    ui = "history" =>
        /\ Len(history) = Len(plans)
        /\ \A i, j \in 1..Len(history) : i < j => history[i].id > history[j].id

Distance(e, target) == Abs(e.dt - target)

WellFormed(forecasts) ==
    \A i \in 1..Len(forecasts) : forecasts[i].dt # NoKey /\ forecasts[i].complete

\* k is the first entry of forecasts nearest to target
FirstNearest(forecasts, target, k) ==
    /\ \A j \in 1..Len(forecasts) : Distance(forecasts[k], target) <= Distance(forecasts[j], target)
    /\ \A j \in 1..(k - 1) : Distance(forecasts[j], target) > Distance(forecasts[k], target)

Midnight(date) == IF date = "1970-01-02" THEN 86400 ELSE 172800

CalledWith200 ==
    /\ tool_result # NoResult
    /\ tool_args.response.net = "ok"
    /\ tool_args.response.status = 200
    /\ tool_args.response.body.json
    /\ tool_args.date \in ValidDates

ForecastList ==
    IF tool_args.response.body.has_list THEN tool_args.response.body.list ELSE <<>>

\* C8: called with a valid date and answered 200, get_weather reports the first
\* entry of the forecast list that is nearest to the date's midnight (every entry
\* having its fields), and returns "No forecast available." for an empty or
\* absent list.
C8_ClosestForecast ==
    CalledWith200 =>
        /\ ForecastList = <<>> =>
              tool_result = Return("No forecast available.", 0, 0, 0)
        /\ (ForecastList # <<>> /\ WellFormed(ForecastList)) =>
              \E k \in 1..Len(ForecastList) :
                  /\ FirstNearest(ForecastList, Midnight(tool_args.date), k)
                  /\ tool_result.kind = "return"
                  /\ tool_result.msg = "forecast"
                  /\ tool_result.date = (ForecastList[k].dt \div 60) * 60
                  /\ tool_result.temp = ForecastList[k].temp

C8_Witness ==
    /\ CalledWith200
    /\ tool_args.date = "1970-01-02"
    /\ Len(ForecastList) = 3
    /\ ForecastList[1].dt = 129600 /\ ForecastList[1].temp = 10
    /\ ForecastList[2].dt = 43200 /\ ForecastList[2].temp = 20
    /\ ForecastList[3].dt = 129600 /\ ForecastList[3].temp = 20
    /\ tool_result = Return("forecast", 0, 129600, 10)

\* C9: answered with a status other than 200, get_weather returns the error text
\* with that status whatever the body and the date are, and the executor records it
\* as the observation and goes back to Thinking.
C9_Non200IsObserved ==
    (tool_result # NoResult /\ tool_args.response.net = "ok"
                            /\ tool_args.response.status # 200) =>
        /\ tool_result =
              Return("Error fetching weather: ", tool_args.response.status, 0, 0)
        /\ pc = "thinking"
        /\ steps = 1
        /\ last_step = [tool |-> <<"get_weather">>, observation |-> tool_result]
        /\ executor_result = "none"

C9_Witness ==
    /\ tool_result = Return("Error fetching weather: ", 404, 0, 0)
    /\ tool_args.date = "tomorrow"
    /\ tool_args.response.body = NotJson
    /\ pc = "thinking"

KeyMissing(k) == k = "None" \/ k = ""

\* C10: with a credential absent or empty the script builds nothing, creates no
\* table, starts no run, calls neither model nor tool and stores no row; all it
\* shows is the configuration error.
C10_MissingKeyStopsAll ==
    (KeyMissing(GROQ_API_KEY) \/ KeyMissing(SERPER_API_KEY)
                              \/ KeyMissing(OPENWEATHER_API_KEY)) =>
        /\ agent_executor = "None"
        /\ ~table
        /\ plans = <<>>
        /\ pc = "idle"
        /\ executor_result = "none"
        /\ llm_output = <<>>
        /\ iterations = 0
        /\ steps = 0
        /\ history = <<>>
        /\ ui \in {"", "Missing API keys."}

C10_Witness ==
    /\ GROQ_API_KEY = "key"
    /\ SERPER_API_KEY = ""
    /\ OPENWEATHER_API_KEY = "None"
    /\ ui = "Missing API keys."
    /\ now > 0

====
